---- MODULE Spec2Model ----
(***************************************************************************)
(* Model of src/Projet.py: the Projet orchestrator (team, tasks, budget,   *)
(* risks, milestones, change log, version), the notification fan-out       *)
(* (NotificationContext over a NotificationStrategy) and the critical-path *)
(* computation over the task dependency graph.                             *)
(*                                                                         *)
(* Objects are identified by small integers (object identity in Python).   *)
(* Dates are whole day numbers, so (date_fin - date_debut).days is a       *)
(* subtraction.  A Python exception raised by a call is recorded in        *)
(* `erreur`; the deliveries a call attempted are recorded in `envois`.     *)
(***************************************************************************)
EXTENDS Integers, Sequences, FiniteSets, TLC

\* ------------------------------------------------------------- bounds
NbTaches == 4           \* Tache objects available to the callers
MaxEquipe == 2          \* cap on len(equipe.membres)
MaxTaches == 1          \* cap on len(taches) in the orchestrator model
MaxTachesChemin == 4    \* cap on len(taches) in the critical-path model
MaxRisques == 1         \* cap on len(risques)
MaxJalons == 1          \* cap on len(jalons)
MaxChangements == 2     \* cap on len(changements)
MaxDependances == 2     \* cap on len(tache.dependances)
NbTachesGraphe == 3     \* Tache objects whose dependency lists are edited
MaxTachesGraphe == 3    \* cap on len(taches) while the graph is edited
MaxAretes == 3          \* cap on the total number of dependency references
MaxDestinataires == 3   \* cap on the recipient list of a direct broadcast
LimiteRecursion == 6    \* depth at which the interpreter raises RecursionError

Membres == {1, 2}       \* the two Membre objects of the demonstration
Taches == 1..NbTaches
TachesGraphe == 1..NbTachesGraphe
Risques == {"Retard de livraison"}
Jalons == {"Phase 1 terminee"}
Descriptions == {"Changement de la portee du projet"}
Budgets == {50000}

\* The three strategies the source defines; each only prints, none raises.
Strategies == {"Email", "SMS", "Push"}
\* Any other subclass of the abstract NotificationStrategy: envoyer_message
\* is abstract, so an implementation may raise.
StrategiesAbstraites == Strategies \cup {"Autre"}

VARIABLES
    membres,               \* Projet.equipe.membres
    taches,                \* Projet.taches
    budget,                \* Projet.budget
    risques,               \* Projet.risques
    jalons,                \* Projet.jalons
    version,               \* Projet.version
    changements,           \* Projet.changements, records (description, version)
    chemin_critique,       \* Projet.chemin_critique
    notification_context,  \* "None", or the strategy of the NotificationContext
    date_debut,            \* Tache.date_debut, per task
    date_fin,              \* Tache.date_fin, per task
    dependances,           \* Tache.dependances, per task
    appel,                 \* the last call made, "" before the first
    envois,                \* deliveries attempted by the last call, in order
    erreur,                \* exception raised by the last call, "None" if none
    memo,                  \* memo of the last calculer_chemin_critique
    nb_enregistrements     \* calls of enregistrer_changement so far

vars == <<membres, taches, budget, risques, jalons, version, changements,
          chemin_critique, notification_context, date_debut, date_fin,
          dependances, appel, envois, erreur, memo, nb_enregistrements>>

varsTaches == <<date_debut, date_fin, dependances>>

\* ------------------------------------------------- notification fan-out

\* The project's fields a handler reads and writes, as one record.
Etat ==
    [membres |-> membres, taches |-> taches, budget |-> budget,
     risques |-> risques, jalons |-> jalons, version |-> version,
     changements |-> changements]

\* What a delivery can observe of the project at the moment it is attempted.
Instantane(P) ==
    [membres |-> Len(P.membres), taches |-> Len(P.taches), budget |-> P.budget,
     risques |-> Len(P.risques), jalons |-> Len(P.jalons),
     version |-> P.version, changements |-> Len(P.changements)]

\* Positions of the recipient list at which envoyer_message may raise
\* (0: it raises at none).  The three concrete strategies print and return.
Echecs(strategy, n) ==
    IF strategy \in Strategies \cup {"None"} THEN {0} ELSE 0..n

\* One call of strategy.envoyer_message(message, destinataire).
envoyer_message(strategy, message, destinataire, vu) ==
    [message |-> message, destinataire |-> destinataire, canal |-> strategy,
     vu |-> vu]

\* NotificationContext.notifier: the for loop from recipient i on.  An
\* exception raised by envoyer_message at position `echec` leaves the loop.
RECURSIVE notifier_boucle(_, _, _, _, _, _, _)
notifier_boucle(strategy, message, destinataires, vu, i, echec, fait) ==
    IF i > Len(destinataires)
    THEN [envois |-> fait, erreur |-> "None"]
    ELSE LET tente == Append(fait, envoyer_message(strategy, message,
                                                   destinataires[i], vu))
         IN  IF i = echec
             THEN [envois |-> tente, erreur |-> "DeliveryError"]
             ELSE notifier_boucle(strategy, message, destinataires, vu,
                                  i + 1, echec, tente)

NotificationContext_notifier(strategy, message, destinataires, vu, echec) ==
    notifier_boucle(strategy, message, destinataires, vu, 1, echec, <<>>)

\* Projet.notifier with the guard dropped: the context is used even when
\* it is None.
Projet_notifier_sans_garde(P, ctx, message, echec) ==
    IF ctx = "None"
    THEN [envois |-> <<>>, erreur |-> "AttributeError"]
    ELSE NotificationContext_notifier(ctx, message, P.membres, Instantane(P), echec)

\* Projet.notifier
Projet_notifier(P, ctx, message, echec) ==
    IF ctx # "None"
    THEN NotificationContext_notifier(ctx, message, P.membres, Instantane(P), echec)
    ELSE [envois |-> <<>>, erreur |-> "None"]

\* ------------------------------------------- the orchestrator's handlers
\* Each handler maps the project P, the configured context, its argument and
\* the failing position to the project after the call and the call's outcome.

Issue(P, r) == [etat |-> P, envois |-> r.envois, erreur |-> r.erreur]

\* ajouter_membre with the notification sent before the mutation.
ajouter_membre_notifie_avant(P, ctx, membre, echec) ==
    Issue([P EXCEPT !.membres = Append(@, membre)],
          Projet_notifier(P, ctx, <<"a ete ajoute a l'equipe", membre>>, echec))

ajouter_membre(P, ctx, membre, echec) ==
    LET P1 == [P EXCEPT !.membres = Append(@, membre)]
    IN  Issue(P1, Projet_notifier(P1, ctx, <<"a ete ajoute a l'equipe", membre>>, echec))

ajouter_membre_equipe(P, ctx, membre, echec) ==
    LET P1 == [P EXCEPT !.membres = Append(@, membre)]
    IN  Issue(P1, Projet_notifier(P1, ctx, <<"a ete ajoute a l'equipe", membre>>, echec))

ajouter_tache(P, ctx, tache, echec) ==
    LET P1 == [P EXCEPT !.taches = Append(@, tache)]
    IN  Issue(P1, Projet_notifier(P1, ctx, <<"Nouvelle tache ajoutee", tache>>, echec))

definir_budget(P, ctx, b, echec) ==
    LET P1 == [P EXCEPT !.budget = b]
    IN  Issue(P1, Projet_notifier(P1, ctx, <<"Le budget du projet a ete defini a", P1.budget>>, echec))

ajouter_risque(P, ctx, risque, echec) ==
    LET P1 == [P EXCEPT !.risques = Append(@, risque)]
    IN  Issue(P1, Projet_notifier(P1, ctx, <<"Nouveau risque ajoute", risque>>, echec))

ajouter_jalon(P, ctx, jalon, echec) ==
    LET P1 == [P EXCEPT !.jalons = Append(@, jalon)]
    IN  Issue(P1, Projet_notifier(P1, ctx, <<"Nouveau jalon ajoute", jalon>>, echec))

\* Changement.__init__
Changement(description, v) == [description |-> description, version |-> v]

\* enregistrer_changement with the version incremented before the record
\* is built.
enregistrer_changement_incremente_avant(P, ctx, description, echec) ==
    LET P1 == [P EXCEPT !.version = @ + 1]
        P2 == [P1 EXCEPT !.changements = Append(@, Changement(description, P1.version))]
    IN  Issue(P2, Projet_notifier(P2, ctx,
                    <<"Changement enregistre", description, P2.version>>, echec))

enregistrer_changement(P, ctx, description, echec) ==
    LET changement == Changement(description, P.version)
        P1 == [P EXCEPT !.changements = Append(@, changement)]
        P2 == [P1 EXCEPT !.version = @ + 1]
    IN  Issue(P2, Projet_notifier(P2, ctx,
                    <<"Changement enregistre", description, P2.version>>, echec))

\* The state change of a handler call with outcome r.
Effet(nom, r) ==
    /\ membres' = r.etat.membres
    /\ taches' = r.etat.taches
    /\ budget' = r.etat.budget
    /\ risques' = r.etat.risques
    /\ jalons' = r.etat.jalons
    /\ version' = r.etat.version
    /\ changements' = r.etat.changements
    /\ envois' = r.envois
    /\ erreur' = r.erreur
    /\ appel' = nom
    /\ memo' = <<>>
    /\ UNCHANGED <<chemin_critique, notification_context, varsTaches>>

Appel_ajouter_membre ==
    \E membre \in Membres :
    \E echec \in Echecs(notification_context, Len(membres) + 1) :
        /\ Len(membres) < MaxEquipe
        /\ Effet("ajouter_membre", ajouter_membre(Etat, notification_context, membre, echec))
        /\ UNCHANGED nb_enregistrements

Appel_ajouter_membre_equipe ==
    \E membre \in Membres :
    \E echec \in Echecs(notification_context, Len(membres) + 1) :
        /\ Len(membres) < MaxEquipe
        /\ Effet("ajouter_membre_equipe",
                 ajouter_membre_equipe(Etat, notification_context, membre, echec))
        /\ UNCHANGED nb_enregistrements

Appel_ajouter_tache(objets, max) ==
    \E tache \in objets :
    \E echec \in Echecs(notification_context, Len(membres)) :
        /\ Len(taches) < max
        /\ Effet("ajouter_tache", ajouter_tache(Etat, notification_context, tache, echec))
        /\ UNCHANGED nb_enregistrements

Appel_definir_budget ==
    \E b \in Budgets :
    \E echec \in Echecs(notification_context, Len(membres)) :
        /\ Effet("definir_budget", definir_budget(Etat, notification_context, b, echec))
        /\ UNCHANGED nb_enregistrements

Appel_ajouter_risque ==
    \E risque \in Risques :
    \E echec \in Echecs(notification_context, Len(membres)) :
        /\ Len(risques) < MaxRisques
        /\ Effet("ajouter_risque", ajouter_risque(Etat, notification_context, risque, echec))
        /\ UNCHANGED nb_enregistrements

Appel_ajouter_jalon ==
    \E jalon \in Jalons :
    \E echec \in Echecs(notification_context, Len(membres)) :
        /\ Len(jalons) < MaxJalons
        /\ Effet("ajouter_jalon", ajouter_jalon(Etat, notification_context, jalon, echec))
        /\ UNCHANGED nb_enregistrements

Appel_enregistrer_changement ==
    \E description \in Descriptions :
    \E echec \in Echecs(notification_context, Len(membres)) :
        /\ Len(changements) < MaxChangements
        /\ Effet("enregistrer_changement",
                 enregistrer_changement(Etat, notification_context, description, echec))
        /\ nb_enregistrements' = nb_enregistrements + 1

\* A direct call of Projet.notifier(message).
Appel_notifier ==
    \E echec \in Echecs(notification_context, Len(membres)) :
        /\ Effet("notifier", Issue(Etat, Projet_notifier(Etat, notification_context,
                                                         <<"message">>, echec)))
        /\ UNCHANGED nb_enregistrements

\* Projet.set_notification_strategy
Appel_set_notification_strategy ==
    \E strategy \in Strategies :
        /\ notification_context' = strategy
        /\ appel' = "set_notification_strategy"
        /\ envois' = <<>>
        /\ erreur' = "None"
        /\ memo' = <<>>
        /\ UNCHANGED <<membres, taches, budget, risques, jalons, version, changements,
                       chemin_critique, varsTaches, nb_enregistrements>>

\* ------------------------------------------------------- critical path

\* Tache.ajouter_dependance
ajouter_dependance(deps, tache, dep) ==
    [deps EXCEPT ![tache] = Append(@, dep)]

\* (tache.date_fin - tache.date_debut).days
Jours(tache) == date_fin[tache] - date_debut[tache]

\* find_longest_path(tache, memo), the closure of calculer_chemin_critique,
\* at call depth prof.  It returns the memo it leaves, the (length, path)
\* pair it returns and whether it raised.  Python raises RecursionError when
\* the call depth passes the interpreter's limit.
RECURSIVE find_longest_path(_, _, _)
RECURSIVE boucle_dependances(_, _, _, _, _, _)

\* The for loop over tache.dependances from position i on, with the running
\* max_length and max_path.
boucle_dependances(tache, i, m, max_length, max_path, prof) ==
    IF i > Len(dependances[tache])
    THEN [leve |-> FALSE, memo |-> m, max_length |-> max_length, max_path |-> max_path]
    ELSE LET r == find_longest_path(dependances[tache][i], m, prof + 1)
         IN  IF r.leve
             THEN [leve |-> TRUE, memo |-> r.memo, max_length |-> max_length,
                   max_path |-> max_path]
             ELSE IF r.res[1] > max_length
                  THEN boucle_dependances(tache, i + 1, r.memo, r.res[1], r.res[2], prof)
                  ELSE boucle_dependances(tache, i + 1, r.memo, max_length, max_path, prof)

find_longest_path(tache, m, prof) ==
    IF prof > LimiteRecursion
    THEN [leve |-> TRUE, memo |-> m, res |-> <<0, <<>>>>]
    ELSE IF tache \in DOMAIN m
    THEN [leve |-> FALSE, memo |-> m, res |-> m[tache]]
    ELSE IF dependances[tache] = <<>>
    THEN [leve |-> FALSE, memo |-> (tache :> <<0, <<tache>>>>) @@ m,
          res |-> <<0, <<tache>>>>]
    ELSE LET b == boucle_dependances(tache, 1, m, 0, <<>>, prof)
             total_length == b.max_length + Jours(tache)
             res == <<total_length, Append(b.max_path, tache)>>
         IN  IF b.leve
             THEN [leve |-> TRUE, memo |-> b.memo, res |-> <<0, <<>>>>]
             ELSE [leve |-> FALSE, memo |-> (tache :> res) @@ b.memo, res |-> res]

\* all_paths = [find_longest_path(tache, memo) for tache in self.taches],
\* from position i on.
RECURSIVE tous_les_chemins(_, _, _, _)
tous_les_chemins(ts, i, m, all_paths) ==
    IF i > Len(ts)
    THEN [leve |-> FALSE, memo |-> m, all_paths |-> all_paths]
    ELSE LET r == find_longest_path(ts[i], m, 1)
         IN  IF r.leve
             THEN [leve |-> TRUE, memo |-> r.memo, all_paths |-> all_paths]
             ELSE tous_les_chemins(ts, i + 1, r.memo, Append(all_paths, r.res))

\* max(all_paths, key=lambda x: x[0]): the first element of greatest key.
PremierMax(all_paths) ==
    LET i == CHOOSE i \in 1..Len(all_paths) :
                 /\ \A j \in 1..Len(all_paths) : all_paths[j][1] <= all_paths[i][1]
                 /\ \A j \in 1..(i - 1) : all_paths[j][1] < all_paths[i][1]
    IN  all_paths[i]

\* Projet.calculer_chemin_critique: the path it stores, the memo it built
\* and the exception it raised.
calculer_chemin_critique(ts, ancien) ==
    LET c == tous_les_chemins(ts, 1, <<>>, <<>>)
    IN  IF c.leve
        THEN [chemin |-> ancien, memo |-> c.memo, erreur |-> "RecursionError"]
        ELSE IF c.all_paths = <<>>
        THEN [chemin |-> ancien, memo |-> c.memo, erreur |-> "ValueError"]
        ELSE [chemin |-> PremierMax(c.all_paths)[2], memo |-> c.memo, erreur |-> "None"]

Appel_calculer_chemin_critique ==
    LET r == calculer_chemin_critique(taches, chemin_critique)
    IN  /\ chemin_critique' = r.chemin
        /\ memo' = r.memo
        /\ erreur' = r.erreur
        /\ appel' = "calculer_chemin_critique"
        /\ envois' = <<>>
        /\ UNCHANGED <<membres, taches, budget, risques, jalons, version, changements,
                       notification_context, varsTaches, nb_enregistrements>>

\* Total number of dependency references held by the tasks.
RECURSIVE NbAretes(_, _)
NbAretes(deps, S) ==
    IF S = {} THEN 0
    ELSE LET t == CHOOSE t \in S : TRUE
         IN  Len(deps[t]) + NbAretes(deps, S \ {t})

Appel_ajouter_dependance ==
    \E tache \in TachesGraphe, dep \in TachesGraphe :
        /\ Len(dependances[tache]) < MaxDependances
        /\ NbAretes(dependances, TachesGraphe) < MaxAretes
        /\ dependances' = ajouter_dependance(dependances, tache, dep)
        /\ appel' = "ajouter_dependance"
        /\ envois' = <<>>
        /\ erreur' = "None"
        /\ memo' = <<>>
        /\ UNCHANGED <<membres, taches, budget, risques, jalons, version, changements,
                       chemin_critique, notification_context, date_debut, date_fin,
                       nb_enregistrements>>

\* --------------------------------------------- direct use of the context

\* NotificationContext.set_notification_strategy
Contexte_set_notification_strategy ==
    \E strategy \in StrategiesAbstraites :
        /\ notification_context' = strategy
        /\ appel' = "NotificationContext.set_notification_strategy"
        /\ envois' = <<>>
        /\ erreur' = "None"
        /\ UNCHANGED <<membres, taches, budget, risques, jalons, version, changements,
                       chemin_critique, varsTaches, memo, nb_enregistrements>>

\* Recipient lists a caller may pass.
RECURSIVE Listes(_, _)
Listes(S, n) ==
    IF n = 0 THEN {<<>>}
    ELSE LET plus_courtes == Listes(S, n - 1)
         IN  plus_courtes \cup {Append(l, x) : l \in plus_courtes, x \in S}

\* NotificationContext.notifier(message, destinataires), called directly;
\* `membres` holds the list passed.
Contexte_notifier ==
    \E destinataires \in Listes(Membres, MaxDestinataires) :
    \E echec \in Echecs(notification_context, Len(destinataires)) :
        LET r == NotificationContext_notifier(notification_context, <<"message">>,
                                              destinataires, Instantane(Etat), echec)
        IN  /\ membres' = destinataires
            /\ envois' = r.envois
            /\ erreur' = r.erreur
            /\ appel' = "NotificationContext.notifier"
            /\ UNCHANGED <<taches, budget, risques, jalons, version, changements,
                           chemin_critique, notification_context, varsTaches, memo,
                           nb_enregistrements>>

\* ------------------------------------------------------ specifications

\* Dates of the Tache objects of the source, as day numbers of 2024: the
\* demonstration's two tasks, then the two tasks of the tests' setUp.
DatesSource ==
    [t \in Taches |->
        CASE t = 1 -> <<0, 30>>
          [] t = 2 -> <<31, 181>>
          [] t = 3 -> <<74, 110>>
          [] t = 4 -> <<102, 130>>
          [] OTHER -> <<0, 0>>]

\* Spans 10, 5, 20 and 1 day.
DatesDiamant ==
    [t \in Taches |->
        CASE t = 1 -> <<0, 10>>
          [] t = 2 -> <<10, 15>>
          [] t = 3 -> <<10, 30>>
          [] t = 4 -> <<30, 31>>
          [] OTHER -> <<0, 0>>]

\* Equal spans and empty spans.
DatesEgales ==
    [t \in Taches |-> IF t % 2 = 1 THEN <<0, 5>> ELSE <<3, 3>>]

Jeux == {DatesSource, DatesDiamant, DatesEgales}

\* Projet.__init__
InitProjet ==
    /\ membres = <<>>
    /\ taches = <<>>
    /\ budget = 0
    /\ risques = <<>>
    /\ jalons = <<>>
    /\ version = 1
    /\ changements = <<>>
    /\ chemin_critique = <<>>
    /\ notification_context = "None"
    /\ appel = ""
    /\ envois = <<>>
    /\ erreur = "None"
    /\ memo = <<>>
    /\ nb_enregistrements = 0

\* Tache.__init__ for every task, with the dates of the jeu.
InitTaches(jeu, deps) ==
    /\ date_debut = [t \in Taches |-> jeu[t][1]]
    /\ date_fin = [t \in Taches |-> jeu[t][2]]
    /\ dependances = deps

SansDependances == [t \in Taches |-> <<>>]

\* The orchestrator over the objects of the demonstration: tache2 is built
\* with dependances=[tache1].
TachesDemo == {1, 2}

Init ==
    /\ InitProjet
    /\ InitTaches(DatesSource, [SansDependances EXCEPT ![2] = <<1>>])

Next ==
    \/ Appel_set_notification_strategy
    \/ Appel_ajouter_membre
    \/ Appel_ajouter_membre_equipe
    \/ Appel_ajouter_tache(TachesDemo, MaxTaches)
    \/ Appel_definir_budget
    \/ Appel_ajouter_risque
    \/ Appel_ajouter_jalon
    \/ Appel_enregistrer_changement
    \/ Appel_notifier
    \/ Appel_calculer_chemin_critique

Spec == Init /\ [][Next]_vars

\* Dependency lists given to the constructors: a task can only be built
\* over objects that exist already, so task t names tasks built before it.
DependancesConstruites ==
    {d \in [Taches -> Listes(Taches, MaxDependances)] :
        \A t \in Taches : \A i \in 1..Len(d[t]) : d[t][i] < t}

\* The critical path over task graphs as the constructors build them, on a
\* project without strategy.
InitChemin ==
    /\ InitProjet
    /\ \E jeu \in Jeux, deps \in DependancesConstruites : InitTaches(jeu, deps)

NextChemin ==
    \/ Appel_ajouter_tache(Taches, MaxTachesChemin)
    \/ Appel_calculer_chemin_critique

SpecChemin == InitChemin /\ [][NextChemin]_vars

\* The critical path over task graphs that ajouter_dependance edits, which
\* may close a cycle, on a project without strategy.
InitGraphe ==
    /\ InitProjet
    /\ \E jeu \in Jeux : InitTaches(jeu, SansDependances)

NextGraphe ==
    \/ Appel_ajouter_dependance
    \/ Appel_ajouter_tache(TachesGraphe, MaxTachesGraphe)
    \/ Appel_calculer_chemin_critique

SpecGraphe == InitGraphe /\ [][NextGraphe]_vars

\* A NotificationContext used on its own, over any strategy.
InitDiffusion ==
    /\ InitProjet
    /\ InitTaches(DatesSource, SansDependances)

NextDiffusion ==
    \/ Contexte_set_notification_strategy
    \/ Contexte_notifier

SpecDiffusion == InitDiffusion /\ [][NextDiffusion]_vars

\* -------------------------------------------------------------- claims

Elements(l) == {l[i] : i \in 1..Len(l)}

Dernier(l) == l[Len(l)]

ApresCalcul == appel = "calculer_chemin_critique"

\* Every dependency reached from the project's tasks is itself in the project.
ToutEnregistre ==
    \A t \in Elements(taches) : Elements(dependances[t]) \subseteq Elements(taches)

\* Tasks reached from t by at least one and at most n dependency references.
RECURSIVE Atteints(_, _)
Atteints(t, n) ==
    IF n = 0 THEN {}
    ELSE LET directs == Elements(dependances[t])
         IN  directs \cup UNION {Atteints(d, n - 1) : d \in directs}

Cyclique(S) == \E t \in S : t \in Atteints(t, NbTaches)

\* Cumulative span of the longest dependency chain ending in t (t included),
\* in an acyclic graph.
RECURSIVE LongueurChaine(_)
LongueurChaine(t) ==
    LET ls == {LongueurChaine(d) : d \in Elements(dependances[t])}
    IN  Jours(t) + (IF ls = {} THEN 0 ELSE CHOOSE l \in ls : \A k \in ls : k <= l)

\* C1: after calculer_chemin_critique, every task of the project without
\* dependencies has computed length (date_fin - date_debut).days and
\* computed path [task].
C1_FeuilleLongueurEgaleDuree ==
    (ApresCalcul /\ erreur = "None") =>
        \A t \in Elements(taches) :
            dependances[t] = <<>> =>
                /\ t \in DOMAIN memo
                /\ memo[t] = <<Jours(t), <<t>>>>

\* C2: in an acyclic project graph, the computed length of a task with
\* dependencies is L + S: L the largest cumulative length over its
\* dependency chains, S its own span; a function of the graph alone, so
\* independent of insertion order, with a shared ancestor counted once
\* (the diamond of spans 10, 5, 20, 1 gives 31 for its last task).
C2_LongueurEgaleChainePlusDuree ==
    (ApresCalcul /\ erreur = "None" /\ ToutEnregistre /\ ~Cyclique(Elements(taches))) =>
        \A t \in Elements(taches) :
            dependances[t] # <<>> =>
                /\ t \in DOMAIN memo
                /\ memo[t][1] = LongueurChaine(t)

\* C3: after calculer_chemin_critique on a non-empty acyclic project,
\* chemin_critique is a full dependency chain: it starts with a task without
\* dependencies, each later element has its predecessor among its direct
\* dependencies, and it ends with the first task, in insertion order, of
\* maximal computed length.
C3_CheminEstChaineComplete ==
    (ApresCalcul /\ taches # <<>> /\ ToutEnregistre /\ ~Cyclique(Elements(taches))) =>
        /\ erreur = "None"
        /\ chemin_critique # <<>>
        /\ dependances[chemin_critique[1]] = <<>>
        /\ \A i \in 2..Len(chemin_critique) :
               chemin_critique[i - 1] \in Elements(dependances[chemin_critique[i]])
        /\ \E i \in 1..Len(taches) :
               /\ Dernier(chemin_critique) = taches[i]
               /\ \A j \in 1..Len(taches) : memo[taches[j]][1] <= memo[taches[i]][1]
               /\ \A j \in 1..(i - 1) : memo[taches[j]][1] < memo[taches[i]][1]

\* C4: when the dependency relation among the project's tasks has a cycle
\* (a task depending on itself included), calculer_chemin_critique fails
\* with CyclicDependencyError.
C4_CycleLeveCyclicDependencyError ==
    (ApresCalcul /\ Cyclique(Elements(taches))) => erreur = "CyclicDependencyError"

\* C5: calculer_chemin_critique on an empty task list raises nothing and
\* leaves chemin_critique empty.
C5_ProjetVideSansErreur ==
    (ApresCalcul /\ taches = <<>>) => (erreur = "None" /\ chemin_critique = <<>>)

\* C10: a dependency on a task outside the project is accepted when it is
\* added, a later calculer_chemin_critique that reaches it fails with
\* UnknownDependencyError, and chemin_critique holds only tasks of the
\* project.
C10_DependanceInconnueLeveErreur ==
    /\ appel \in {"ajouter_dependance", "ajouter_tache"} => erreur = "None"
    /\ (ApresCalcul /\ ~ToutEnregistre /\ ~Cyclique(Elements(taches))) =>
           erreur = "UnknownDependencyError"
    /\ Elements(chemin_critique) \subseteq Elements(taches)

\* C8: NotificationContext.notifier with N recipients attempts N deliveries,
\* one per recipient in list order, whether or not a delivery fails.
C8_DiffusionTenteChaqueDestinataire ==
    appel = "NotificationContext.notifier" =>
        /\ Len(envois) = Len(membres)
        /\ \A i \in 1..Len(membres) : envois[i].destinataire = membres[i]

\* The operations of Projet that mutate the project and then notify.
Mutations ==
    {"ajouter_membre", "ajouter_membre_equipe", "ajouter_tache", "definir_budget",
     "ajouter_risque", "ajouter_jalon", "enregistrer_changement"}

\* The step is a call of operation `nom` that applied its mutation.
MutationAppliquee(nom) ==
    CASE nom \in {"ajouter_membre", "ajouter_membre_equipe"} ->
             \E m \in Membres : membres' = Append(membres, m)
      [] nom = "ajouter_tache" -> \E t \in Taches : taches' = Append(taches, t)
      [] nom = "definir_budget" -> budget' \in Budgets
      [] nom = "ajouter_risque" -> \E r \in Risques : risques' = Append(risques, r)
      [] nom = "ajouter_jalon" -> \E j \in Jalons : jalons' = Append(jalons, j)
      [] nom = "enregistrer_changement" ->
             /\ version' = version + 1
             /\ \E d \in Descriptions :
                    changements' = Append(changements, Changement(d, version))

\* The message operation `nom` builds, read off the project after the call.
MessageAttendu(nom) ==
    CASE nom \in {"ajouter_membre", "ajouter_membre_equipe"} ->
             <<"a ete ajoute a l'equipe", Dernier(membres')>>
      [] nom = "ajouter_tache" -> <<"Nouvelle tache ajoutee", Dernier(taches')>>
      [] nom = "definir_budget" -> <<"Le budget du projet a ete defini a", budget'>>
      [] nom = "ajouter_risque" -> <<"Nouveau risque ajoute", Dernier(risques')>>
      [] nom = "ajouter_jalon" -> <<"Nouveau jalon ajoute", Dernier(jalons')>>
      [] nom = "enregistrer_changement" ->
             <<"Changement enregistre", Dernier(changements').description, version'>>

\* C6: in every reachable state, after n calls of enregistrer_changement,
\* version = 1 + n, changements has n records and their version numbers in
\* list order are 1, 2, ..., n; a step never removes or renumbers a record,
\* and only enregistrer_changement changes version or changements.
C6_VersionEtJournal ==
    /\ [](/\ version = 1 + nb_enregistrements
          /\ Len(changements) = nb_enregistrements
          /\ \A i \in 1..Len(changements) : changements[i].version = i)
    /\ [][/\ Len(changements') >= Len(changements)
          /\ SubSeq(changements', 1, Len(changements)) = changements
          /\ appel' # "enregistrer_changement" =>
                 (version' = version /\ changements' = changements)
          /\ appel' = "enregistrer_changement" =>
                 (version' = version + 1 /\ Len(changements') = Len(changements) + 1)]_vars

C6_Temoin ==
    /\ nb_enregistrements = 2
    /\ Len(changements) = 2
    /\ version = 3
    /\ membres # <<>>
    /\ taches # <<>>
    /\ appel = "definir_budget"

\* C7: while no strategy is configured, each mutating operation and each
\* direct call of notifier raises nothing, attempts no delivery, and the
\* mutating operation still applies its mutation.
C7_SansStrategieAucunEnvoi ==
    [][(notification_context = "None" /\ appel' \in Mutations \cup {"notifier"}) =>
           /\ erreur' = "None"
           /\ envois' = <<>>
           /\ appel' \in Mutations => MutationAppliquee(appel')]_vars

C7_Temoin ==
    /\ notification_context = "None"
    /\ appel = "ajouter_risque"
    /\ risques # <<>>
    /\ Len(membres) = 2
    /\ envois = <<>>
    /\ erreur = "None"

====
